---- MODULE Spec2Model ----
(***************************************************************************)
(* Model of web_search.py: the Open WebUI tool that queries SearXNG,       *)
(* scrapes the first pages concurrently and returns them as JSON           *)
(* (Tools.search_web), and that opens a single page (Tools.get_website).   *)
(*                                                                         *)
(* Text is a sequence of code points; a code point is a one-element        *)
(* string, or the name of a non-ASCII code point ("U+1F600").              *)
(***************************************************************************)
EXTENDS Integers, Sequences, FiniteSets, TLC

\* ------------------------------------------------------------------------
\* Bounds of the model
\* ------------------------------------------------------------------------
\* longest result list the search backend answers with
MaxBackend == 3
\* largest configured RETURNED_SCRAPPED_PAGES_NO / SCRAPPED_PAGES_NO
MaxCount == 3
\* requests served one after the other by the same Tools object
MaxRequests == 2
\* pieces a text handed to the text functions is made of
MaxPieces == 3
\* largest PAGE_CONTENT_WORDS_LIMIT the text functions are called with
MaxWords == 2

\* ------------------------------------------------------------------------
\* Python built-ins used by the code
\* ------------------------------------------------------------------------
Min(a, b) == IF a <= b THEN a ELSE b

Max(a, b) == IF a >= b THEN a ELSE b

\* variant of Slice: nothing is cut
SliceAll(s, n) == s

\* s[:n] of Python, negative n included
Slice(s, n) ==
    IF n >= 0 THEN SubSeq(s, 1, Min(n, Len(s)))
    ELSE SubSeq(s, 1, Max(0, Len(s) + n))

\* s[n:] for n >= 0
Drop(s, n) == SubSeq(s, Min(n, Len(s)) + 1, Len(s))

\* the whitespace code points (str.isspace(), \s of re)
WhiteSpace == {" ", "\t", "\n"}

\* str.isspace() on one code point
IsSpace(c) == c \in WhiteSpace

\* t in s, on strings
Contains(s, t) ==
    \E i \in 0..(Len(s) - Len(t)) : SubSeq(s, i + 1, i + Len(t)) = t

\* s.startswith(t)
StartsWith(s, t) == Len(t) <= Len(s) /\ SubSeq(s, 1, Len(t)) = t

\* first index of a code point of set cs in s, Len(s)+1 when there is none
RECURSIVE FindFirst(_, _, _)
FindFirst(s, cs, i) ==
    IF i > Len(s) THEN Len(s) + 1
    ELSE IF s[i] \in cs THEN i
    ELSE FindFirst(s, cs, i + 1)

\* str.lstrip()
RECURSIVE LStrip(_)
LStrip(s) ==
    IF s # <<>> /\ IsSpace(s[1]) THEN LStrip(Tail(s)) ELSE s

\* str.rstrip()
RECURSIVE RStrip(_)
RStrip(s) ==
    IF s # <<>> /\ IsSpace(s[Len(s)]) THEN RStrip(SubSeq(s, 1, Len(s) - 1))
    ELSE s

\* str.strip()
Strip(s) == RStrip(LStrip(s))

\* str.split(sep) for a one code point separator: "".split(",") is [""]
RECURSIVE SplitOn(_, _)
SplitOn(s, sep) ==
    LET i == FindFirst(s, {sep}, 1)
    IN  IF i > Len(s) THEN <<s>>
        ELSE <<SubSeq(s, 1, i - 1)>> \o SplitOn(Drop(s, i), sep)

\* str.split(): the maximal runs of non-whitespace
RECURSIVE Words(_)
Words(s) ==
    LET t == LStrip(s)
        i == FindFirst(t, WhiteSpace, 1)
    IN  IF t = <<>> THEN <<>>
        ELSE <<SubSeq(t, 1, i - 1)>> \o Words(Drop(t, i - 1))

\* sep.join(parts)
RECURSIVE Join(_, _)
Join(parts, sep) ==
    IF parts = <<>> THEN <<>>
    ELSE IF Len(parts) = 1 THEN parts[1]
    ELSE parts[1] \o sep \o Join(Tail(parts), sep)

\* a Python string literal, here as the sequence of its code points
HTTP == <<"h", "t", "t", "p">>

\* ------------------------------------------------------------------------
\* Libraries: unicodedata, BeautifulSoup (html.parser), urllib.parse
\* ------------------------------------------------------------------------
\* code points of Unicode category So (Symbol, other)
CategorySo == {"U+1F600", "U+00A9", "U+2122"}

Letters == {"a", "b", "c", "e", "h", "i", "l", "p", "s", "t", "x", "y"}

\* unicodedata.normalize("NFKC", .) of one code point
NfkcChar(c) ==
    IF c = "U+00A0" THEN <<" ">>
    ELSE IF c = "U+2122" THEN <<"T", "M">>
    ELSE <<c>>

\* unicodedata.normalize("NFKC", s)
RECURSIVE Nfkc(_)
Nfkc(s) == IF s = <<>> THEN <<>> ELSE NfkcChar(s[1]) \o Nfkc(Tail(s))

\* the text nodes of a document: markup is cut out, entities are decoded
RECURSIVE TextNodes(_, _)
TextNodes(s, cur) ==
    IF s = <<>> THEN <<cur>>
    ELSE IF /\ s[1] = "<"
            /\ Len(s) >= 2
            /\ s[2] \in Letters \cup {"/", "!"}
            /\ FindFirst(s, {">"}, 1) <= Len(s)
         THEN <<cur>> \o TextNodes(Drop(s, FindFirst(s, {">"}, 1)), <<>>)
    ELSE IF StartsWith(s, <<"&", "l", "t", ";">>)
         THEN TextNodes(Drop(s, 4), Append(cur, "<"))
    ELSE IF StartsWith(s, <<"&", "g", "t", ";">>)
         THEN TextNodes(Drop(s, 4), Append(cur, ">"))
    ELSE TextNodes(Tail(s), Append(cur, s[1]))

RECURSIVE StrippedStrings(_)
StrippedStrings(nodes) ==
    IF nodes = <<>> THEN <<>>
    ELSE (IF Strip(nodes[1]) = <<>> THEN <<>> ELSE <<Strip(nodes[1])>>)
         \o StrippedStrings(Tail(nodes))

\* BeautifulSoup(s, "html.parser").get_text(separator=" ", strip=True)
get_text(s) == Join(StrippedStrings(TextNodes(s, <<>>)), <<" ">>)

\* re.sub(r"\s+", " ", s)
RECURSIVE CollapseWhitespace(_)
CollapseWhitespace(s) ==
    IF s = <<>> THEN <<>>
    ELSE IF IsSpace(s[1])
         THEN <<" ">> \o CollapseWhitespace(LStrip(s))
    ELSE <<s[1]>> \o CollapseWhitespace(Tail(s))

\* urlparse(url): scheme up to the first ":", netloc after "//" up to the
\* next "/", "?" or "#"
UrlScheme(url) ==
    LET i == FindFirst(url, {":"}, 1)
    IN  IF /\ i <= Len(url)
           /\ i > 1
           /\ \A k \in 1..(i - 1) : url[k] \in Letters
        THEN SubSeq(url, 1, i - 1) ELSE <<>>

UrlNetloc(url) ==
    LET sch == UrlScheme(url)
        rest == IF sch = <<>> THEN url ELSE Drop(url, Len(sch) + 1)
        after == Drop(rest, 2)
    IN  IF StartsWith(rest, <<"/", "/">>)
        THEN SubSeq(after, 1, FindFirst(after, {"/", "?", "#"}, 1) - 1)
        ELSE <<>>

\* index of the first occurrence of t in s, 0 when there is none
IndexOf(s, t) ==
    IF Contains(s, t)
    THEN CHOOSE i \in 1..(Len(s) - Len(t) + 1) :
           /\ SubSeq(s, i, i + Len(t) - 1) = t
           /\ \A j \in 1..(i - 1) : SubSeq(s, j, j + Len(t) - 1) # t
    ELSE 0

\* ------------------------------------------------------------------------
\* class HelpFunctions
\* ------------------------------------------------------------------------
\* lines 24-27: scheme://netloc of the url
get_base_url(url) == UrlScheme(url) \o <<":", "/", "/">> \o UrlNetloc(url)

\* default of the max_length parameter of generate_excerpt
ExcerptMaxLength == 200

generate_excerpt(content) ==
    IF Len(content) > ExcerptMaxLength
    THEN Slice(content, ExcerptMaxLength) \o <<".", ".", ".">>
    ELSE content

remove_emojis(text) == SelectSeq(text, LAMBDA c : c \notin CategorySo)

\* the replacement parameter of replace_urls_with_text
LinksText == <<"(", "l", "i", "n", "k", "s", ")">>

\* length of the match of \(https?://[^\s]+\) at the start of s, 0 if none
UrlMatchLen(s) ==
    LET head == IF StartsWith(s, <<"(">> \o HTTP \o <<"s", ":", "/", "/">>)
                THEN 9
                ELSE IF StartsWith(s, <<"(">> \o HTTP \o <<":", "/", "/">>)
                THEN 8
                ELSE 0
        stop == FindFirst(s, WhiteSpace, 1)
        ends == {k \in (head + 2)..(stop - 1) : s[k] = ")"}
    IN  IF head = 0 \/ ends = {} THEN 0
        ELSE CHOOSE k \in ends : \A j \in ends : j <= k

\* variant of replace_urls_with_text: only the first match is replaced
RECURSIVE replace_first_url_with_text(_)
replace_first_url_with_text(text) ==
    IF text = <<>> THEN <<>>
    ELSE IF UrlMatchLen(text) > 0
         THEN LinksText \o Drop(text, UrlMatchLen(text))
    ELSE <<text[1]>> \o replace_first_url_with_text(Tail(text))

RECURSIVE replace_urls_with_text(_)
replace_urls_with_text(text) ==
    IF text = <<>> THEN <<>>
    ELSE IF UrlMatchLen(text) > 0
         THEN LinksText \o replace_urls_with_text(Drop(text, UrlMatchLen(text)))
    ELSE <<text[1]>> \o replace_urls_with_text(Tail(text))

format_text(original_text, valves) ==
    LET t1 == get_text(original_text)
        t2 == Nfkc(t1)
        t3 == CollapseWhitespace(t2)
        t4 == Strip(t3)
        t5 == remove_emojis(t4)
    IN  IF valves.REMOVE_LINKS THEN replace_urls_with_text(t5) ELSE t5

\* variant of truncate_to_n_words: one token too many is kept
truncate_to_n_words_plus_one(text, token_limit) ==
    Join(Slice(Words(text), token_limit + 1), <<" ">>)

truncate_to_n_words(text, token_limit) ==
    Join(Slice(Words(text), token_limit), <<" ">>)

\* ------------------------------------------------------------------------
\* The world outside: backend answers, pages, sinks
\* ------------------------------------------------------------------------
\* the value None of Python
None == [none |-> TRUE]

Hosts == <<"a", "b", "c">>

Host(i) == Hosts[((i - 1) % 3) + 1]

\* the url of the i-th entry of the backend's answer: http://<host>/<path>
Url(i) == HTTP \o <<":", "/", "/", Host(i), "/", Host(i + 1)>>

\* the i-th entry of the "results" list of the backend's JSON answer
Candidate(i) ==
    [title |-> <<"t", "U+1F600", Host(i)>>, url |-> Url(i),
     content |-> <<"s", "U+00A9">>]

\* response_site.text for the page behind the i-th url
Page(i) ==
    <<"<", "p", ">", Host(i), " ", " ", "(">> \o HTTP
    \o <<":", "/", "/", "y", ")", " ", "U+1F600", " ", "y", "<", "/", "p", ">">>

TitleOpen == <<"<", "t", "i", "t", "l", "e", ">">>

TitleClose == <<"<", "/", "t", "i", "t", "l", "e", ">">>

\* the pages get_website is asked to open: without a title, with a title,
\* with a title element that has no text
WebsitePages ==
    << Page(1),
       TitleOpen \o <<" ", "T", "U+00A9", " ">> \o TitleClose \o Page(2),
       TitleOpen \o TitleClose \o Page(3) >>

\* the __event_emitter__ argument: not given, a coroutine that works, a
\* coroutine that may raise
Sinks == {"absent", "working", "failing"}

\* values of the valve IGNORED_WEBSITES
IgnoredSettings ==
    { <<>>, <<"b">>, <<" ", "b", " ", ",", "x">>, <<"/", "c">>,
      <<"x", ",">> }

\* values of the valve JINA_READER_BASE_URL
ReaderSettings == { <<>>, <<"r", "/">> }

\* values of the valve PAGE_CONTENT_WORDS_LIMIT
WordLimits == {2}

\* the valves an administrator can set
ValveSettings ==
    [ SEARXNG_ENGINE_API_BASE_URL : {<<"e">>},
      IGNORED_WEBSITES : IgnoredSettings,
      RETURNED_SCRAPPED_PAGES_NO : 0..MaxCount,
      SCRAPPED_PAGES_NO : 0..MaxCount,
      PAGE_CONTENT_WORDS_LIMIT : WordLimits,
      CITATION_LINKS : BOOLEAN,
      JINA_READER_BASE_URL : ReaderSettings,
      REMOVE_LINKS : BOOLEAN ]

\* ------------------------------------------------------------------------
\* State
\* ------------------------------------------------------------------------
VARIABLES
    valves,           \* self.valves
    configured,       \* the valves as they were set before the first request
    requests,         \* number of requests made so far
    op,               \* the operation being served
    pc,               \* position in its code
    sink,             \* its __event_emitter__ argument
    emitted,          \* the records the sink has accepted, in order
    ret,              \* what the operation gave back to its caller
    start_valves,     \* the valves when the request came in
    params,           \* params of the backend request
    used,             \* the result counts the request has used, by use
    limited_results,  \* limited_results
    futures,          \* futures of the ThreadPoolExecutor
    yielded,          \* the futures as_completed has yielded, in order
    results_json,     \* results_json
    processed_count,  \* processed_count
    exc,              \* the exception caught, "none" when there is none
    cite_idx,         \* position of the loop over results_json (line 261)
    results,          \* results, the list of the backend's answer
    queries,          \* GET requests the search has sent to the backend
    text_in,          \* a text handed to a function of HelpFunctions
    text_out,         \* what the function made of it
    text_pc           \* which function has been applied

vars ==
    <<valves, configured, requests, op, pc, sink, emitted, ret, start_valves,
      params, used, limited_results, futures, yielded, results_json,
      processed_count, exc, cite_idx, results, queries, text_in, text_out,
      text_pc>>

cfgVars == <<valves, configured>>

backendVars == <<results, queries>>

textVars == <<text_in, text_out, text_pc>>

reqVars == <<requests, op, sink, start_valves>>

poolVars == <<futures, yielded>>

localVars == <<params, used, limited_results, results_json, processed_count,
               exc, cite_idx>>

Init ==
    /\ valves \in ValveSettings
    /\ configured = valves
    /\ requests = 0
    /\ op = "idle"
    /\ pc = "idle"
    /\ sink = "absent"
    /\ emitted = <<>>
    /\ ret = None
    /\ start_valves = valves
    /\ params = None
    /\ used = {}
    /\ limited_results = <<>>
    /\ futures = <<>>
    /\ yielded = <<>>
    /\ results_json = <<>>
    /\ processed_count = 0
    /\ exc = "none"
    /\ cite_idx = 0
    /\ results = <<>>
    /\ queries = 0
    /\ text_in = <<>>
    /\ text_out = <<>>
    /\ text_pc = "off"

\* variant of StatusEvent: the urls are left out
StatusEventNoUrls(description, status, done, action, urls) ==
    [type |-> "status", status |-> status, description |-> description,
     done |-> done, action |-> action, urls |-> <<>>]

\* ------------------------------------------------------------------------
\* class EventEmitter
\* ------------------------------------------------------------------------
\* the record EventEmitter.emit hands to the sink
StatusEvent(description, status, done, action, urls) ==
    [type |-> "status", status |-> status, description |-> description,
     done |-> done, action |-> action, urls |-> urls]

\* emit with the defaults of its parameters
Progress(description) ==
    StatusEvent(description, "in_progress", FALSE, "", <<>>)

\* what a call of the sink can do: return, or raise an Exception
SinkOutcomes == IF sink = "failing" THEN {"returns", "raises"} ELSE {"returns"}

\* await emitter.emit(...) when the call returns: `if self.event_emitter`
emit(ev) ==
    emitted' = IF sink # "absent" THEN Append(emitted, ev) ELSE emitted

\* the exception of a sink that raises
SinkError == "SinkError"

\* exception e leaves the operation: the caller gets no value
Propagate(e) ==
    /\ pc' = "done"
    /\ ret' = [raised |-> e]

\* ------------------------------------------------------------------------
\* Tools.search_web
\* ------------------------------------------------------------------------
\* lines 172-185: the call; the frame of the request is fresh
search_web_call(s) ==
    /\ pc \in {"idle", "done"}
    /\ requests < MaxRequests
    /\ requests' = requests + 1
    /\ op' = "search_web"
    /\ sink' = s
    /\ start_valves' = valves
    /\ pc' = "searching"
    /\ emitted' = <<>>
    /\ ret' = None
    /\ params' = None
    /\ used' = {}
    /\ limited_results' = <<>>
    /\ futures' = <<>>
    /\ yielded' = <<>>
    /\ results_json' = <<>>
    /\ processed_count' = 0
    /\ exc' = "none"
    /\ cite_idx' = 0
    /\ results' = <<>>
    /\ queries' = 0
    /\ UNCHANGED <<textVars, cfgVars>>

\* line 187
emit_searching ==
    /\ op = "search_web" /\ pc = "searching"
    /\ \E o \in SinkOutcomes :
         IF o = "raises"
         THEN Propagate(SinkError) /\ UNCHANGED emitted
         ELSE /\ emit(Progress(<<"Searching">>))
              /\ pc' = "clamp"
              /\ UNCHANGED ret
    /\ UNCHANGED <<textVars, backendVars, cfgVars, reqVars, poolVars, localVars>>

\* variant of Clamped: the comparison of line 192 is never true
ClampedNever(v) == v.RETURNED_SCRAPPED_PAGES_NO

\* lines 192-193: the value RETURNED_SCRAPPED_PAGES_NO has afterwards
Clamped(v) ==
    IF v.RETURNED_SCRAPPED_PAGES_NO > v.SCRAPPED_PAGES_NO
    THEN v.SCRAPPED_PAGES_NO
    ELSE v.RETURNED_SCRAPPED_PAGES_NO

\* lines 189-199
clamp ==
    /\ op = "search_web" /\ pc = "clamp"
    /\ valves' = [valves EXCEPT !.RETURNED_SCRAPPED_PAGES_NO = Clamped(valves)]
    /\ params' = [q |-> <<"q">>, format |-> "json",
                  number_of_results |-> valves'.RETURNED_SCRAPPED_PAGES_NO]
    /\ used' = used \cup {<<"number_of_results", params'.number_of_results>>}
    /\ pc' = "sending"
    /\ UNCHANGED <<textVars, backendVars, configured, reqVars, poolVars, emitted, ret,
                   limited_results, results_json, processed_count, exc,
                   cite_idx>>

\* line 202
emit_sending ==
    /\ op = "search_web" /\ pc = "sending"
    /\ \E o \in SinkOutcomes :
         IF o = "raises"
         THEN Propagate(SinkError) /\ UNCHANGED emitted
         ELSE /\ emit(Progress(<<"Sending query to search engine">>))
              /\ pc' = "backend"
              /\ UNCHANGED ret
    /\ UNCHANGED <<textVars, backendVars, cfgVars, reqVars, poolVars, localVars>>

\* variant of LimitResults: one cap, RETURNED_SCRAPPED_PAGES_NO
LimitResultsToReturned(found, v) ==
    Slice(found, v.RETURNED_SCRAPPED_PAGES_NO)

\* lines 209-210: results[: self.valves.SCRAPPED_PAGES_NO]
LimitResults(found, v) == Slice(found, v.SCRAPPED_PAGES_NO)

\* lines 203-210, the backend answers with n results
backend_answers(n) ==
    /\ op = "search_web" /\ pc = "backend"
    /\ queries' = queries + 1
    /\ results' = [i \in 1..n |-> Candidate(i)]
    /\ limited_results' = LimitResults(results', valves)
    /\ pc' = "found"
    /\ UNCHANGED <<textVars, cfgVars, reqVars, poolVars, emitted, ret, params, used,
                   results_json, processed_count, exc, cite_idx>>

\* lines 203-206, the request raises a RequestException
backend_fails ==
    /\ op = "search_web" /\ pc = "backend"
    /\ queries' = queries + 1
    /\ exc' = "RequestException"
    /\ pc' = "backend_error"
    /\ UNCHANGED <<textVars, results, cfgVars, reqVars, poolVars, emitted, ret, params, used,
                   limited_results, results_json, processed_count, cite_idx>>

\* line 211, then 221-222
emit_found ==
    /\ op = "search_web" /\ pc = "found"
    /\ \E o \in SinkOutcomes :
         IF o = "raises"
         THEN Propagate(SinkError) /\ UNCHANGED emitted
         ELSE /\ emit(Progress(<<"Found search results", Len(limited_results)>>))
              /\ pc' = IF limited_results # <<>> THEN "processing" ELSE "complete"
              /\ UNCHANGED ret
    /\ UNCHANGED <<textVars, backendVars, cfgVars, reqVars, poolVars, localVars>>

\* lines 213-219
backend_error ==
    /\ op = "search_web" /\ pc = "backend_error"
    /\ \E o \in SinkOutcomes :
         IF o = "raises"
         THEN Propagate(SinkError) /\ UNCHANGED emitted
         ELSE /\ emit(StatusEvent(<<"Search error">>, "error", TRUE, "", <<>>))
              /\ pc' = "done"
              /\ ret' = [error |-> exc]
    /\ UNCHANGED <<textVars, backendVars, cfgVars, reqVars, poolVars, localVars>>

\* line 223
emit_processing ==
    /\ op = "search_web" /\ pc = "processing"
    /\ \E o \in SinkOutcomes :
         IF o = "raises"
         THEN Propagate(SinkError) /\ UNCHANGED emitted
         ELSE /\ emit(Progress(<<"Processing search results">>))
              /\ pc' = "submit"
              /\ UNCHANGED ret
    /\ UNCHANGED <<textVars, backendVars, cfgVars, reqVars, poolVars, localVars>>

\* a future: state, result or exception of its call, the GET requests its
\* call has issued and what the last of them met
NewFuture == [state |-> "pending", result |-> None, exception |-> "none",
              gets |-> 0, response |-> "none"]

\* lines 226-234
submit ==
    /\ op = "search_web" /\ pc = "submit"
    /\ futures' = [i \in 1..Len(limited_results) |-> NewFuture]
    /\ yielded' = <<>>
    /\ processed_count' = 0
    /\ pc' = "as_completed"
    /\ UNCHANGED <<textVars, backendVars, cfgVars, reqVars, emitted, ret, params, used,
                   limited_results, results_json, exc, cite_idx>>

\* ------------------------------------------------------------------------
\* HelpFunctions.process_search_result, run by a worker of the pool
\* ------------------------------------------------------------------------
\* variant of IsIgnored: the tokens are not stripped
IsIgnoredUnstripped(url_site, v) ==
    /\ v.IGNORED_WEBSITES # <<>>
    /\ \E k \in 1..Len(SplitOn(v.IGNORED_WEBSITES, ",")) :
         Contains(get_base_url(url_site), SplitOn(v.IGNORED_WEBSITES, ",")[k])

\* lines 56-61: the candidate is on the list of ignored websites
IsIgnored(url_site, v) ==
    /\ v.IGNORED_WEBSITES # <<>>
    /\ \E k \in 1..Len(SplitOn(v.IGNORED_WEBSITES, ",")) :
         Contains(get_base_url(url_site),
                  Strip(SplitOn(v.IGNORED_WEBSITES, ",")[k]))

\* lines 71-78: the content made of the text of the response
ScrapedContent(html_content, v) ==
    LET content_site == get_text(html_content)
    IN  truncate_to_n_words(
            IF v.JINA_READER_BASE_URL # <<>>
            THEN format_text(content_site, v)
            ELSE content_site,
            v.PAGE_CONTENT_WORDS_LIMIT)

\* lines 51-53 and 80-85: the dict the call returns
ScrapedResult(result, html_content, v) ==
    [title |-> remove_emojis(result.title),
     url |-> result.url,
     content |-> ScrapedContent(html_content, v),
     snippet |-> remove_emojis(result.content)]

\* variant of FetchFailed: the RequestException is not caught
FetchFailedUncaught(f) ==
    [f EXCEPT !.state = "finished", !.exception = "RequestException"]

\* lines 87-88: what a RequestException of the GET makes of the future
FetchFailed(f) == [f EXCEPT !.state = "finished", !.result = None]

\* an exception that is no RequestException ends the call
CallRaised(f) == [f EXCEPT !.state = "finished", !.exception = "TypeError"]

\* lines 51-67: a worker takes the call up to its GET request
task_start(i) ==
    /\ op = "search_web"
    /\ i \in 1..Len(futures)
    /\ futures[i].state = "pending"
    /\ futures' =
         [futures EXCEPT ![i] =
            IF IsIgnored(limited_results[i].url, valves)
            THEN [@ EXCEPT !.state = "finished", !.result = None]
            ELSE [@ EXCEPT !.state = "running", !.gets = @ + 1]]
    /\ UNCHANGED <<textVars, backendVars, cfgVars, reqVars, pc, emitted, ret, yielded, localVars>>

\* lines 65-85: the GET answers 2xx and the page is processed
task_scraped(i) ==
    /\ op = "search_web"
    /\ i \in 1..Len(futures)
    /\ futures[i].state = "running"
    /\ futures' =
         [futures EXCEPT ![i] =
            [@ EXCEPT !.state = "finished", !.response = "2xx",
                      !.result = ScrapedResult(limited_results[i], Page(i),
                                               valves)]]
    /\ UNCHANGED <<textVars, backendVars, cfgVars, reqVars, pc, emitted, ret, yielded, localVars>>

\* lines 65-68, 87-88: the GET times out, fails or answers non-2xx
task_fetch_fails(i) ==
    /\ op = "search_web"
    /\ i \in 1..Len(futures)
    /\ futures[i].state = "running"
    /\ futures' = [futures EXCEPT ![i] =
                      FetchFailed([@ EXCEPT !.response = "RequestException"])]
    /\ UNCHANGED <<textVars, backendVars, cfgVars, reqVars, pc, emitted, ret, yielded, localVars>>

\* lines 69-85: a step after the GET raises, e.g. remove_emojis(None) for a
\* result whose "content" is null (line 84)
task_raises(i) ==
    /\ op = "search_web"
    /\ i \in 1..Len(futures)
    /\ futures[i].state = "running"
    /\ futures' = [futures EXCEPT ![i] =
                      CallRaised([@ EXCEPT !.response = "2xx"])]
    /\ UNCHANGED <<textVars, backendVars, cfgVars, reqVars, pc, emitted, ret, yielded, localVars>>

\* ------------------------------------------------------------------------
\* Tools.search_web, the loop over the futures and what follows
\* ------------------------------------------------------------------------
InSeq(sq, x) == \E k \in 1..Len(sq) : sq[k] = x

AllFinished == \A i \in 1..Len(futures) : futures[i].state = "finished"

\* line 247: the loop over the futures ends early
Sufficient(collected, v) ==
    Len(collected) >= v.RETURNED_SCRAPPED_PAGES_NO

\* lines 235-248: as_completed yields future i and the body of the loop runs
as_completed_next(i) ==
    /\ op = "search_web" /\ pc = "as_completed"
    /\ i \in 1..Len(futures)
    /\ futures[i].state = "finished"
    /\ ~InSeq(yielded, i)
    /\ yielded' = Append(yielded, i)
    /\ IF futures[i].exception # "none"
       THEN \* line 236: future.result() raises
            /\ exc' = futures[i].exception
            /\ pc' = "shutdown"
            /\ UNCHANGED <<results_json, processed_count, emitted, used>>
       ELSE IF futures[i].result # None
       THEN /\ results_json' = Append(results_json, futures[i].result)
            /\ processed_count' = processed_count + 1
            /\ \E o \in SinkOutcomes :
                 IF o = "raises"
                 THEN \* lines 244-246: printed, continue
                      /\ UNCHANGED <<emitted, pc, used>>
                 ELSE /\ emit(Progress(<<"Processing page", processed_count',
                                         Len(limited_results)>>))
                      /\ used' = used \cup
                            {<<"stop", valves.RETURNED_SCRAPPED_PAGES_NO>>}
                      /\ pc' = IF Sufficient(results_json', valves)
                               THEN "shutdown" ELSE "as_completed"
            /\ UNCHANGED exc
       ELSE /\ used' = used \cup {<<"stop", valves.RETURNED_SCRAPPED_PAGES_NO>>}
            /\ pc' = IF Sufficient(results_json, valves)
                     THEN "shutdown" ELSE "as_completed"
            /\ UNCHANGED <<results_json, processed_count, emitted, exc>>
    /\ UNCHANGED <<textVars, backendVars, cfgVars, reqVars, ret, futures, params, limited_results,
                   cite_idx>>

\* line 235: as_completed has yielded every future
as_completed_end ==
    /\ op = "search_web" /\ pc = "as_completed"
    /\ \A i \in 1..Len(futures) : InSeq(yielded, i)
    /\ pc' = "shutdown"
    /\ UNCHANGED <<textVars, backendVars, cfgVars, reqVars, poolVars, emitted, ret, localVars>>

\* line 226: the with block is left, executor.shutdown(wait=True)
shutdown ==
    /\ op = "search_web" /\ pc = "shutdown"
    /\ AllFinished
    /\ pc' = IF exc # "none" THEN "except" ELSE "truncate"
    /\ UNCHANGED <<textVars, backendVars, cfgVars, reqVars, poolVars, emitted, ret, localVars>>

\* lines 250-255
except_clause ==
    /\ op = "search_web" /\ pc = "except"
    /\ \E o \in SinkOutcomes :
         IF o = "raises"
         THEN Propagate(SinkError) /\ UNCHANGED <<emitted, exc>>
         ELSE /\ emit(StatusEvent(<<"Processing error">>, "error", TRUE,
                                  "", <<>>))
              /\ exc' = "none"
              /\ pc' = "truncate"
              /\ UNCHANGED ret
    /\ UNCHANGED <<textVars, backendVars, cfgVars, reqVars, poolVars, params, used, limited_results,
                   results_json, processed_count, cite_idx>>

\* lines 257-260
truncate ==
    /\ op = "search_web" /\ pc = "truncate"
    /\ results_json' = Slice(results_json, valves.RETURNED_SCRAPPED_PAGES_NO)
    /\ used' = used \cup {<<"truncate", valves.RETURNED_SCRAPPED_PAGES_NO>>}
    /\ IF valves.CITATION_LINKS /\ sink # "absent" /\ Len(results_json') > 0
       THEN pc' = "citation" /\ cite_idx' = 1
       ELSE pc' = "complete" /\ UNCHANGED cite_idx
    /\ UNCHANGED <<textVars, backendVars, cfgVars, reqVars, poolVars, emitted, ret, params,
                   limited_results, processed_count, exc>>

\* variant of Citation: the snippet's place is taken by the title
CitationOfTitle(content, url, title) ==
    [type |-> "citation", document |-> <<title>>,
     metadata |-> <<[source |-> url]>>, source |-> [name |-> title]]

\* the record of lines 263-270 and 339-346
Citation(content, url, title) ==
    [type |-> "citation", document |-> <<content>>,
     metadata |-> <<[source |-> url]>>, source |-> [name |-> title]]

\* lines 261-271, one turn of the loop
citation ==
    /\ op = "search_web" /\ pc = "citation"
    /\ \E o \in SinkOutcomes :
         IF o = "raises"
         THEN Propagate(SinkError) /\ UNCHANGED <<emitted, cite_idx>>
         ELSE /\ emitted' = Append(emitted,
                     Citation(results_json[cite_idx].content,
                              results_json[cite_idx].url,
                              results_json[cite_idx].title))
              /\ cite_idx' = cite_idx + 1
              /\ pc' = IF cite_idx = Len(results_json)
                       THEN "complete" ELSE "citation"
              /\ UNCHANGED ret
    /\ UNCHANGED <<textVars, backendVars, cfgVars, reqVars, poolVars, params, used, limited_results,
                   results_json, processed_count, exc>>

\* lines 273-285
complete ==
    /\ op = "search_web" /\ pc = "complete"
    /\ \E o \in SinkOutcomes :
         IF o = "raises"
         THEN Propagate(SinkError) /\ UNCHANGED emitted
         ELSE /\ emit(StatusEvent(<<"Found search results", Len(results_json)>>,
                                  "complete", TRUE, "web_search",
                                  [k \in 1..Len(results_json) |->
                                     results_json[k].url]))
              /\ pc' = "done"
              /\ ret' = [json |-> results_json]
    /\ UNCHANGED <<textVars, backendVars, cfgVars, reqVars, poolVars, localVars>>

\* ------------------------------------------------------------------------
\* Tools.get_website
\* ------------------------------------------------------------------------
\* soup.title: the document has a title element
HasTitle(html) == Contains(html, TitleOpen)

\* what is between <title> and </title>
TitleInner(html) ==
    LET rest == Drop(html, IndexOf(html, TitleOpen) + Len(TitleOpen) - 1)
    IN  IF Contains(rest, TitleClose)
        THEN SubSeq(rest, 1, IndexOf(rest, TitleClose) - 1)
        ELSE rest

\* soup.title.string is None: the element has no single string child
TitleStringIsNone(html) ==
    TitleInner(html) = <<>> \/ Contains(TitleInner(html), <<"<">>)

NoTitleFound ==
    <<"N", "o", " ", "t", "i", "t", "l", "e", " ", "f", "o", "u", "n", "d">>

\* lines 315-317, for a page whose soup.title.string is a string
PageTitle(html) ==
    remove_emojis(Nfkc(Strip(IF HasTitle(html) THEN TitleInner(html)
                             ELSE NoTitleFound)))

\* line 315-316: None.strip() raises AttributeError
ProcessingRaises(html) == HasTitle(html) /\ TitleStringIsNone(html)

\* lines 313-333: result_site
WebsiteResult(url, html, v) ==
    LET content_site == format_text(get_text(html), v)
    IN  [title |-> PageTitle(html),
         url |-> url,
         content |-> truncate_to_n_words(content_site,
                                         v.PAGE_CONTENT_WORDS_LIMIT),
         excerpt |-> generate_excerpt(content_site)]

FailedToFetch ==
    <<"F", "a", "i", "l", "e", "d", " ", "t", "o", " ", "f", "e", "t", "c",
      "h", " ", "c", "o", "n", "t", "e", "n", "t", ":", " ">>

\* lines 356-361, str(e) being the message of the RequestException
FailureResult(url, message) ==
    [url |-> url, content |-> FailedToFetch \o message]

\* lines 287-302: the call
get_website_call(s) ==
    /\ pc \in {"idle", "done"}
    /\ requests < MaxRequests
    /\ requests' = requests + 1
    /\ op' = "get_website"
    /\ sink' = s
    /\ start_valves' = valves
    /\ pc' = "fetching"
    /\ emitted' = <<>>
    /\ ret' = None
    /\ params' = None
    /\ used' = {}
    /\ limited_results' = <<>>
    /\ futures' = <<>>
    /\ yielded' = <<>>
    /\ results_json' = <<>>
    /\ processed_count' = 0
    /\ exc' = "none"
    /\ cite_idx' = 0
    /\ results' = <<>>
    /\ queries' = 0
    /\ UNCHANGED <<textVars, cfgVars>>

\* line 300
emit_fetching ==
    /\ op = "get_website" /\ pc = "fetching"
    /\ \E o \in SinkOutcomes :
         IF o = "raises"
         THEN Propagate(SinkError) /\ UNCHANGED emitted
         ELSE /\ emit(Progress(<<"Fetching content">>))
              /\ pc' = "get"
              /\ UNCHANGED ret
    /\ UNCHANGED <<textVars, backendVars, cfgVars, reqVars, poolVars, localVars>>

\* lines 304-335: the GET answers 2xx with page p
page_answers(p) ==
    /\ op = "get_website" /\ pc = "get"
    /\ p \in 1..Len(WebsitePages)
    /\ IF ProcessingRaises(WebsitePages[p])
       THEN Propagate("AttributeError") /\ UNCHANGED results_json
       ELSE /\ results_json' =
                 Append(results_json,
                        WebsiteResult(Url(1), WebsitePages[p], valves))
            /\ pc' = IF valves.CITATION_LINKS /\ sink # "absent"
                     THEN "page_citation" ELSE "fetched"
            /\ UNCHANGED ret
    /\ UNCHANGED <<textVars, backendVars, cfgVars, reqVars, poolVars, emitted, params, used,
                   limited_results, processed_count, exc, cite_idx>>

\* lines 304-310, 355-361: the GET raises a RequestException
page_fails ==
    /\ op = "get_website" /\ pc = "get"
    /\ results_json' = Append(results_json, FailureResult(Url(1), <<"4", "0", "4">>))
    /\ pc' = "fetch_error"
    /\ UNCHANGED <<textVars, backendVars, cfgVars, reqVars, poolVars, emitted, ret, params, used,
                   limited_results, processed_count, exc, cite_idx>>

\* lines 337-347
page_citation ==
    /\ op = "get_website" /\ pc = "page_citation"
    /\ \E o \in SinkOutcomes :
         IF o = "raises"
         THEN Propagate(SinkError) /\ UNCHANGED emitted
         ELSE /\ emitted' = Append(emitted,
                     Citation(results_json[1].content, results_json[1].url,
                              results_json[1].title))
              /\ pc' = "fetched"
              /\ UNCHANGED ret
    /\ UNCHANGED <<textVars, backendVars, cfgVars, reqVars, poolVars, localVars>>

\* lines 349-353, 369
emit_fetched ==
    /\ op = "get_website" /\ pc = "fetched"
    /\ \E o \in SinkOutcomes :
         IF o = "raises"
         THEN Propagate(SinkError) /\ UNCHANGED emitted
         ELSE /\ emit(StatusEvent(<<"Fetched and processed content successfully">>,
                                  "complete", TRUE, "", <<>>))
              /\ pc' = "done"
              /\ ret' = [json |-> results_json]
    /\ UNCHANGED <<textVars, backendVars, cfgVars, reqVars, poolVars, localVars>>

\* lines 363-369
emit_fetch_error ==
    /\ op = "get_website" /\ pc = "fetch_error"
    /\ \E o \in SinkOutcomes :
         IF o = "raises"
         THEN Propagate(SinkError) /\ UNCHANGED emitted
         ELSE /\ emit(StatusEvent(<<"Fetch content error">>, "error", TRUE,
                                  "", <<>>))
              /\ pc' = "done"
              /\ ret' = [json |-> results_json]
    /\ UNCHANGED <<textVars, backendVars, cfgVars, reqVars, poolVars, localVars>>

\* ------------------------------------------------------------------------
\* Specification
\* ------------------------------------------------------------------------
Next ==
    \/ \E s \in Sinks : search_web_call(s)
    \/ emit_searching
    \/ clamp
    \/ emit_sending
    \/ \E n \in 0..MaxBackend : backend_answers(n)
    \/ backend_fails
    \/ emit_found
    \/ backend_error
    \/ emit_processing
    \/ submit
    \/ \E i \in 1..Len(futures) : task_start(i)
    \/ \E i \in 1..Len(futures) : task_scraped(i)
    \/ \E i \in 1..Len(futures) : task_fetch_fails(i)
    \/ \E i \in 1..Len(futures) : task_raises(i)
    \/ \E i \in 1..Len(futures) : as_completed_next(i)
    \/ as_completed_end
    \/ shutdown
    \/ except_clause
    \/ truncate
    \/ citation
    \/ complete
    \/ \E s \in Sinks : get_website_call(s)
    \/ emit_fetching
    \/ \E p \in 1..Len(WebsitePages) : page_answers(p)
    \/ page_fails
    \/ page_citation
    \/ emit_fetched
    \/ emit_fetch_error

Spec == Init /\ [][Next]_vars

\* ------------------------------------------------------------------------
\* The text functions of HelpFunctions, called on their own
\* ------------------------------------------------------------------------
\* what the texts are made of: words, whitespace, links in parentheses,
\* symbols, markup, character entities
Pieces ==
    { <<"a", " ">>,
      <<"b">>,
      <<" ", "\t">>,
      <<"(">> \o HTTP \o <<":", "/", "/", "y", ")">>,
      <<"(">> \o HTTP \o <<"s", ":", "/", "/", "y", ")", " ">>,
      <<"(">>,
      <<")">>,
      <<"U+00A9">>,
      <<"U+00A0">>,
      <<"U+2122">>,
      <<"<", "p", ">">>,
      <<"&", "l", "t", ";">>,
      <<"b", ">">> }

\* the texts of at most n pieces
RECURSIVE TextsOf(_)
TextsOf(n) ==
    IF n = 0 THEN {<<>>}
    ELSE TextsOf(n - 1) \cup {t \o p : t \in TextsOf(n - 1), p \in Pieces}

\* the valves the text functions read
TextValves ==
    [ SEARXNG_ENGINE_API_BASE_URL : {<<"e">>},
      IGNORED_WEBSITES : {<<>>},
      RETURNED_SCRAPPED_PAGES_NO : {3},
      SCRAPPED_PAGES_NO : {5},
      PAGE_CONTENT_WORDS_LIMIT : 0..MaxWords,
      CITATION_LINKS : {FALSE},
      JINA_READER_BASE_URL : {<<"r", "/">>},
      REMOVE_LINKS : BOOLEAN ]

TextInit ==
    /\ valves \in TextValves
    /\ configured = valves
    /\ requests = 0
    /\ op = "idle"
    /\ pc = "idle"
    /\ sink = "absent"
    /\ emitted = <<>>
    /\ ret = None
    /\ start_valves = valves
    /\ params = None
    /\ used = {}
    /\ limited_results = <<>>
    /\ futures = <<>>
    /\ yielded = <<>>
    /\ results_json = <<>>
    /\ processed_count = 0
    /\ exc = "none"
    /\ cite_idx = 0
    /\ results = <<>>
    /\ queries = 0
    /\ text_in \in TextsOf(MaxPieces)
    /\ text_out = <<>>
    /\ text_pc = "input"

\* the normalizer: format_text, then truncate_to_n_words (lines 320-326)
Normalize(text, v) ==
    truncate_to_n_words(format_text(text, v), v.PAGE_CONTENT_WORDS_LIMIT)

\* lines 90-93: truncate_to_n_words is called on the text
truncate_text ==
    /\ text_pc = "input"
    /\ text_out' = truncate_to_n_words(text_in, valves.PAGE_CONTENT_WORDS_LIMIT)
    /\ text_pc' = "truncated"
    /\ UNCHANGED <<text_in, backendVars, cfgVars, reqVars, poolVars, pc,
                   emitted, ret, localVars>>

\* lines 32-41, 90-93: the text is normalized
normalize_text ==
    /\ text_pc = "input"
    /\ text_out' = Normalize(text_in, valves)
    /\ text_pc' = "normalized"
    /\ UNCHANGED <<text_in, backendVars, cfgVars, reqVars, poolVars, pc,
                   emitted, ret, localVars>>

\* lines 32-41, 90-93: the normalized text is normalized again
normalize_again ==
    /\ text_pc = "normalized"
    /\ text_out' = Normalize(text_out, valves)
    /\ text_pc' = "renormalized"
    /\ UNCHANGED <<text_in, backendVars, cfgVars, reqVars, poolVars, pc,
                   emitted, ret, localVars>>

TextNext ==
    \/ truncate_text
    \/ normalize_text
    \/ normalize_again

SpecText == TextInit /\ [][TextNext]_vars

\* ------------------------------------------------------------------------
\* Vocabulary of the properties
\* ------------------------------------------------------------------------
\* wantCount: the clamped RETURNED_SCRAPPED_PAGES_NO of the request
WantCount ==
    Min(start_valves.RETURNED_SCRAPPED_PAGES_NO, start_valves.SCRAPPED_PAGES_NO)

\* search_web has returned a result list
SearchReturned ==
    op = "search_web" /\ pc = "done" /\ "json" \in DOMAIN ret

\* the candidates whose fetch and normalization succeeded
Succeeded ==
    {i \in 1..Len(futures) :
        /\ futures[i].state = "finished"
        /\ futures[i].exception = "none"
        /\ futures[i].result # None}

\* the candidates whose page fetch failed
FetchFailures ==
    {i \in 1..Len(futures) : futures[i].response = "RequestException"}

\* the candidates whose task threw after a fetch that had succeeded
Thrown ==
    {i \in 1..Len(futures) :
        futures[i].response = "2xx" /\ futures[i].exception # "none"}

ErrorEvents ==
    {k \in 1..Len(emitted) :
        emitted[k].type = "status" /\ emitted[k].status = "error"}

\* the result list of a reducer that meets the futures in the given order
\* and has no sink to talk to
RECURSIVE Reduce(_, _, _)
Reduce(order, acc, want) ==
    IF order = <<>> THEN acc
    ELSE IF futures[order[1]].exception # "none" THEN acc
    ELSE LET acc2 == IF futures[order[1]].result # None
                     THEN Append(acc, futures[order[1]].result)
                     ELSE acc
         IN  IF Len(acc2) >= want THEN acc2
             ELSE Reduce(Tail(order), acc2, want)

Reduced(order, want) == Slice(Reduce(order, <<>>, want), want)

Without(order, i) == SelectSeq(order, LAMBDA j : j # i)

\* the trimmed tokens of an ignored-site list
IgnoredTokens(v) ==
    {Strip(SplitOn(v.IGNORED_WEBSITES, ",")[k]) :
        k \in 1..Len(SplitOn(v.IGNORED_WEBSITES, ","))}

\* scheme+host of the url contains a configured token
MatchesIgnoreList(url, v) ==
    /\ v.IGNORED_WEBSITES # <<>>
    /\ \E t \in IgnoredTokens(v) :
         Contains(UrlScheme(url) \o <<":", "/", "/">> \o UrlNetloc(url), t)

\* ------------------------------------------------------------------------
\* Properties
\* ------------------------------------------------------------------------
\* C1: the result list search returns has at most wantCount entries, and
\* fewer than wantCount only when fewer than wantCount candidates were
\* fetched and normalized with success.
C1_AtMostWantCount ==
    SearchReturned =>
        /\ Len(ret.json) <= WantCount
        /\ (Len(ret.json) < WantCount => Cardinality(Succeeded) < WantCount)

\* C2: a candidate whose page fetch failed leaves the search as it would be
\* without that candidate: the list returned is the one the reducer makes of
\* the other futures, every sibling task has run to its end, an error event
\* is emitted only for a cause other than a failed fetch, and when no task
\* threw the successful candidates are returned up to wantCount however
\* many fetches failed.
C2_FetchFailureIsolated ==
    SearchReturned =>
        /\ \A i \in FetchFailures :
             ret.json = Reduced(Without(yielded, i), WantCount)
        /\ \A j \in 1..Len(futures) : futures[j].state = "finished"
        /\ (ErrorEvents # {} => Thrown # {})
        /\ (Thrown = {} =>
              Len(ret.json) = Min(WantCount, Cardinality(Succeeded)))

\* C2 witness: a search over several candidates returns a page although the
\* fetch of another candidate failed.
C2_Witness ==
    /\ SearchReturned
    /\ Len(futures) > 1
    /\ FetchFailures # {}
    /\ \E j \in Succeeded : j \notin FetchFailures /\ InSeq(ret.json, futures[j].result)

\* C3: a task that throws in a step that is no network step is dropped in
\* silence: the search returns a list, no error event is emitted, and the
\* other successful candidates are collected up to wantCount. (Stated for
\* sinks that do not fail.)
C3_ThrowingTaskDropped ==
    (op = "search_web" /\ pc = "done" /\ sink # "failing" /\ Thrown # {}) =>
        /\ "json" \in DOMAIN ret
        /\ ErrorEvents = {}
        /\ Len(ret.json) = Min(WantCount, Cardinality(Succeeded))

\* C4: with a non-empty ignored-site list, no candidate whose scheme+host
\* contains a trimmed token of the list is in the result list, at any time.
C4_IgnoredNeverReturned ==
    op = "search_web" =>
        /\ \A k \in 1..Len(results_json) :
             ~MatchesIgnoreList(results_json[k].url, start_valves)
        /\ ("json" \in DOMAIN ret =>
              \A k \in 1..Len(ret.json) :
                 ~MatchesIgnoreList(ret.json[k].url, start_valves))

\* C4 witness: a search returns pages while a candidate of the same search
\* was on the ignored-site list.
C4_Witness ==
    /\ SearchReturned
    /\ ret.json # <<>>
    /\ \E i \in 1..Len(limited_results) :
         MatchesIgnoreList(limited_results[i].url, start_valves)

\* C5: the count sent to the backend as number_of_results, the count that
\* ends the loop early and the length the list is cut to are all
\* min(configured return count, configured maximum of candidates).
C5_RequestedCountIsMin ==
    op = "search_web" =>
        /\ \A u \in used :
             /\ u[2] = WantCount
             /\ u[2] = Min(configured.RETURNED_SCRAPPED_PAGES_NO,
                           configured.SCRAPPED_PAGES_NO)
        /\ (pc \notin {"searching", "clamp"} /\ "raised" \notin DOMAIN ret =>
              params.number_of_results = WantCount)

\* C5 witness: a search configured with a return count above the maximum of
\* candidates has used the count in all three places.
C5_Witness ==
    /\ SearchReturned
    /\ start_valves.RETURNED_SCRAPPED_PAGES_NO > start_valves.SCRAPPED_PAGES_NO
    /\ {u[1] : u \in used} = {"number_of_results", "stop", "truncate"}

\* C6: a failed backend request fails the search as a whole: the search
\* returns the error payload, no task was submitted and no page requested,
\* and the last event a sink got is the error event with done = true.
C6_BackendFailureAtomic ==
    (op = "search_web" /\ pc = "done" /\ exc = "RequestException") =>
        /\ ret = [error |-> "RequestException"]
        /\ futures = <<>>
        /\ results_json = <<>>
        /\ (sink # "absent" =>
              /\ emitted # <<>>
              /\ emitted[Len(emitted)].status = "error"
              /\ emitted[Len(emitted)].done)

\* C7: get_website returns a list of exactly one entry whatever the fetch
\* and the processing of the page do: the page with title, url, content and
\* excerpt, or url and a content that starts with "Failed to fetch
\* content:". (Stated for sinks that do not fail.)
C7_GetPageOneEntry ==
    (op = "get_website" /\ pc = "done" /\ sink # "failing") =>
        /\ "json" \in DOMAIN ret
        /\ Len(ret.json) = 1
        /\ \/ DOMAIN ret.json[1] = {"title", "url", "content", "excerpt"}
           \/ /\ DOMAIN ret.json[1] = {"url", "content"}
              /\ StartsWith(ret.json[1].content,
                            SubSeq(FailedToFetch, 1, Len(FailedToFetch) - 1))

\* what an operation returns when the sink plays no part: the error payload
\* or the reduced list for search_web, the one entry or the exception of
\* the processing for get_website
SinkFreeReturn ==
    IF op = "search_web"
    THEN IF exc = "RequestException"
         THEN [error |-> "RequestException"]
         ELSE [json |-> Reduced(yielded, WantCount)]
    ELSE IF results_json = <<>>
         THEN [raised |-> "AttributeError"]
         ELSE [json |-> results_json]

\* C8: what search_web and get_website return does not depend on the sink:
\* absent, working or failing, the caller gets the value made of the
\* backend's answer and of the outcomes of the fetches.
C8_SinkIsSideChannel ==
    (op # "idle" /\ pc = "done") => ret = SinkFreeReturn

\* position of a status event in the course of a search
Stage(ev) ==
    IF ev.done THEN 5
    ELSE IF ev.description[1] = "Searching" THEN 1
    ELSE IF ev.description[1] = "Sending query to search engine" THEN 2
    ELSE IF ev.description[1] = "Found search results" THEN 3
    ELSE 4

StatusEvents == SelectSeq(emitted, LAMBDA ev : ev.type = "status")

\* C9: the status events of a search come in the order search-started,
\* query-sent, results-found, processing, terminal; an event with done =
\* true is the last status event, so there is at most one of them.
C9_EventOrder ==
    op = "search_web" =>
        \A j, k \in 1..Len(StatusEvents) :
            j < k =>
                /\ Stage(StatusEvents[j]) <= Stage(StatusEvents[k])
                /\ ~StatusEvents[j].done

\* C10: requests leave the configuration as it was set: every valve has the
\* value it had before the first request.
C10_ConfigurationReadOnly == valves = configured

\* C13: once wantCount results are collected the search stops waiting: it
\* can go on to its terminal event and return whatever the state of the
\* tasks of the other candidates, some of them still running or pending.
C13_EarlyStop ==
    (/\ op = "search_web"
     /\ pc = "shutdown"
     /\ exc = "none"
     /\ WantCount > 0
     /\ Len(results_json) >= WantCount) => ENABLED shutdown

\* the successful results of the futures in the order given
CollectedFrom(order) ==
    LET good == SelectSeq(order, LAMBDA i : /\ futures[i].exception = "none"
                                           /\ futures[i].result # None)
    IN  [k \in 1..Len(good) |-> futures[good[k]].result]

\* the accumulator is the successful results in the order as_completed
\* yielded their futures; the list returned is its first wantCount entries
C14_CompletionOrder ==
    op = "search_web" =>
        /\ \A j, k \in 1..Len(yielded) : j # k => yielded[j] # yielded[k]
        /\ (pc \in {"as_completed", "shutdown", "except", "truncate"} =>
              results_json = CollectedFrom(yielded))
        /\ (SearchReturned =>
              /\ Len(ret.json) = Min(WantCount, Len(CollectedFrom(yielded)))
              /\ \A k \in 1..Len(ret.json) :
                   ret.json[k] = CollectedFrom(yielded)[k])

\* a turn of the loop over the futures appends to the accumulator or
\* leaves it
C14_AppendOnly ==
    (op = "search_web" /\ pc = "as_completed") =>
        /\ Len(results_json') \in {Len(results_json), Len(results_json) + 1}
        /\ SubSeq(results_json', 1, Len(results_json)) = results_json

\* C14: the list returned is the successful results in the order their
\* tasks were seen to complete, cut to the first wantCount: the accumulator
\* is append-only, a result met after wantCount were collected is not
\* returned, no candidate is returned twice.
C14_FirstSuccessesByCompletion ==
    []C14_CompletionOrder /\ [][C14_AppendOnly]_vars

\* C14 witness: the list returned is not in the order of submission, and a
\* successful candidate is left out of it.
C14_Witness ==
    /\ SearchReturned
    /\ Len(ret.json) = 2
    /\ Len(yielded) >= 2
    /\ yielded[1] > yielded[2]
    /\ ret.json[1] = futures[yielded[1]].result
    /\ Cardinality(Succeeded) > Len(ret.json)

\* the backend has answered the query of the search
BackendAnswered ==
    op = "search_web" /\ queries = 1 /\ exc # "RequestException"

\* C15: the candidates of a search are the first min(length of the
\* backend's list, SCRAPPED_PAGES_NO) entries of the backend's list in its
\* order, whatever number_of_results asked for; there is one future for
\* each, so at most SCRAPPED_PAGES_NO pages are requested, and the
\* results-found event reports that number.
C15_TwoTierCap ==
    BackendAnswered =>
        LET cap == Min(Len(results), start_valves.SCRAPPED_PAGES_NO)
        IN  /\ Len(limited_results) = cap
            /\ \A k \in 1..cap : limited_results[k] = results[k]
            /\ (futures # <<>> => Len(futures) = cap)
            /\ Cardinality({i \in 1..Len(futures) : futures[i].gets > 0})
                 <= start_valves.SCRAPPED_PAGES_NO
            /\ \A k \in 1..Len(emitted) :
                 (/\ emitted[k].type = "status"
                  /\ ~emitted[k].done
                  /\ emitted[k].description[1] = "Found search results")
                 => emitted[k].description[2] = cap

\* C15 witness: the backend was asked for fewer results than the local cap,
\* answered with more than the cap, and the pages of the cap's number of
\* candidates were requested.
C15_Witness ==
    /\ BackendAnswered
    /\ pc = "done"
    /\ sink = "working"
    /\ params.number_of_results < start_valves.SCRAPPED_PAGES_NO
    /\ Len(results) > start_valves.SCRAPPED_PAGES_NO
    /\ Len(futures) = start_valves.SCRAPPED_PAGES_NO
    /\ Len(futures) > params.number_of_results
    /\ \A i \in 1..Len(futures) : futures[i].gets = 1

\* within one search a candidate's page is requested at most once, whether
\* the request succeeds or fails, the page of a candidate that matches the
\* list of ignored websites is never requested, and the backend is never
\* queried twice
AtMostOnce ==
    op = "search_web" =>
        /\ \A i \in 1..Len(futures) :
             /\ futures[i].gets <= 1
             /\ (futures[i].state = "finished"
                   /\ futures[i].response # "none") => futures[i].gets = 1
             /\ MatchesIgnoreList(limited_results[i].url, start_valves)
                   => futures[i].gets = 0
        /\ queries <= 1

\* C16: no retry and no fetch of ignored sites: each candidate's page is
\* requested at most once per search, that of an ignored candidate never,
\* and the backend is queried exactly once per search: a search that has
\* ended has made one query.
C16_NoRetry ==
    /\ AtMostOnce
    /\ (op = "search_web" /\ pc = "done") => queries = 1

\* the citation records the sink has received, in order
CitationEvents == SelectSeq(emitted, LAMBDA ev : ev.type = "citation")

\* C17: with CITATION_LINKS on and a sink present, a search that returns
\* has emitted one citation record for each entry of the list it returns,
\* in the list's order, with the entry's content, url and title, all of them
\* before the complete event, and no other citation; with CITATION_LINKS
\* off a search emits no citation.
C17_Citations ==
    op = "search_web" =>
        /\ ~start_valves.CITATION_LINKS => CitationEvents = <<>>
        /\ (SearchReturned /\ start_valves.CITATION_LINKS /\ sink # "absent")
             => /\ CitationEvents =
                     [k \in 1..Len(ret.json) |->
                        [type |-> "citation",
                         document |-> <<ret.json[k].content>>,
                         metadata |-> <<[source |-> ret.json[k].url]>>,
                         source |-> [name |-> ret.json[k].title]]]
                /\ emitted[Len(emitted)].type = "status"
                /\ emitted[Len(emitted)].status = "complete"

\* C17 witness: a search with citations on has returned two entries to a
\* caller with a sink, and a candidate that was fetched with success is not
\* among them.
C17_Witness ==
    /\ SearchReturned
    /\ start_valves.CITATION_LINKS
    /\ sink # "absent"
    /\ Len(ret.json) = 2
    /\ Len(CitationEvents) = 2
    /\ Cardinality(Succeeded) > 2

\* C18: the complete event of a search carries the length of the list
\* returned as its count and the urls of the list's entries, in order, as
\* its urls; count 0 and no urls when nothing was collected.
C18_CompleteMatchesReturn ==
    op = "search_web" =>
        \A k \in 1..Len(emitted) :
            (emitted[k].type = "status" /\ emitted[k].status = "complete")
            => /\ SearchReturned
               /\ emitted[k].description =
                     <<"Found search results", Len(ret.json)>>
               /\ Len(emitted[k].urls) = Len(ret.json)
               /\ \A j \in 1..Len(ret.json) :
                     emitted[k].urls[j] = ret.json[j].url

\* C18 witness: one search has completed with a sink and returned two
\* entries.
C18_Witness ==
    /\ SearchReturned
    /\ sink = "working"
    /\ Len(ret.json) = 2
    /\ emitted[Len(emitted)].type = "status"
    /\ emitted[Len(emitted)].status = "complete"
    /\ emitted[Len(emitted)].description[2] = 2

\* C19: the content of every entry search returns has no Symbol-other
\* character and, with REMOVE_LINKS on, no parenthesized link, whatever
\* JINA_READER_BASE_URL is.
C19_ContentNormalized ==
    SearchReturned =>
        \A k \in 1..Len(ret.json) :
            /\ \A j \in 1..Len(ret.json[k].content) :
                 ret.json[k].content[j] \notin CategorySo
            /\ start_valves.REMOVE_LINKS =>
                 replace_urls_with_text(ret.json[k].content)
                   = ret.json[k].content

\* C20: a candidate is dropped by the filter of ignored websites, its call
\* finished without a request for its page, only if its scheme+host
\* contains a token of IGNORED_WEBSITES that is not empty.
C20_DroppedOnlyOnMatch ==
    op = "search_web" =>
        \A i \in 1..Len(futures) :
            (futures[i].state = "finished" /\ futures[i].gets = 0)
            => \E t \in IgnoredTokens(start_valves) :
                  /\ t # <<>>
                  /\ Contains(UrlScheme(limited_results[i].url)
                                \o <<":", "/", "/">>
                                \o UrlNetloc(limited_results[i].url), t)

\* ------------------------------------------------------------------------
\* Properties of the text functions (under SpecText)
\* ------------------------------------------------------------------------
\* the whitespace-delimited tokens of a text
Tokens(text) == Words(text)

\* C11: truncate_to_n_words, texts being taken as their sequences of
\* whitespace-delimited tokens: the output has at most wordLimit tokens,
\* they are the first wordLimit tokens of the input in order, and the
\* output has the tokens of the input when the input has at most wordLimit
\* tokens.
C11_WordTruncation ==
    text_pc = "truncated" =>
        LET limit == valves.PAGE_CONTENT_WORDS_LIMIT
            tin == Tokens(text_in)
            tout == Tokens(text_out)
        IN  /\ Len(tout) <= limit
            /\ Len(tout) = Min(limit, Len(tin))
            /\ \A k \in 1..Len(tout) : tout[k] = tin[k]
            /\ (Len(tin) <= limit => tout = tin)

\* C11 witness: a text of more tokens than the limit has been cut.
C11_Witness ==
    /\ text_pc = "truncated"
    /\ valves.PAGE_CONTENT_WORDS_LIMIT > 0
    /\ Len(Tokens(text_in)) > valves.PAGE_CONTENT_WORDS_LIMIT
    /\ Len(Tokens(text_out)) = valves.PAGE_CONTENT_WORDS_LIMIT

\* C12 as claimed: for every input, normalizing the normalized text gives
\* the normalized text.
C12_Idempotent ==
    text_pc = "renormalized" => text_out = Normalize(text_in, valves)

\* a text that is clean already: no markup and no character entity, no
\* symbol, and nothing NFKC changes
CleanText(text) ==
    \A k \in 1..Len(text) :
        /\ text[k] \notin {"<", "&"}
        /\ text[k] \notin CategorySo
        /\ NfkcChar(text[k]) = <<text[k]>>

\* C12 amended: for a text that is clean already, normalizing the
\* normalized text gives the normalized text.
C12_IdempotentOnCleanText ==
    (text_pc = "renormalized" /\ CleanText(text_in)) =>
        text_out = Normalize(text_in, valves)

\* C12 witness: a clean text with links in it, of more words than the
\* limit, has been normalized twice, and the normalizer did mask a link.
C12_Witness ==
    /\ text_pc = "renormalized"
    /\ CleanText(text_in)
    /\ valves.REMOVE_LINKS
    /\ Len(Tokens(text_in)) > valves.PAGE_CONTENT_WORDS_LIMIT
    /\ Contains(text_out, LinksText)
    /\ text_out # text_in

====
